---- MODULE Spec2Model ----
(***************************************************************************)
(* Git Helper AI (VS Code extension): the Repository Locator               *)
(* (pickFolderToPublish / scanDir, getRepoOrPickOne / findRepos,           *)
(* getAllFilesRecursively), the Remote-Status Poller                       *)
(* (startBackgroundCheck) and the commands (publishRepo, ignoreFiles,      *)
(* cloneRepo, aiCommit, showGraph, setApiKey).                             *)
(*                                                                         *)
(* A path is the sequence of directory-entry names below the workspace     *)
(* root; the workspace root is the empty sequence.                         *)
(***************************************************************************)
EXTENDS Integers, Sequences, FiniteSets, TLC

VARIABLES
    build,        \* which copy of the extension runs: "extension.js" or "part_001"
    workspace,    \* vscode.workspace.workspaceFolders is defined
    dirs,         \* the directories that exist below the workspace root
    files,        \* the regular files that exist below the workspace root
    unreadable,   \* the directories on which fs.readdirSync throws
    loc,          \* the command invocation in progress (locator, picker, caller)
    timer,        \* checkInterval is armed
    cycles,       \* the invocations of the setInterval callback
    statusBar,    \* statusBarItem
    pulls,        \* the 'Sync Now' notifications and their pulls
    run,          \* the command in progress, past the locator
    secret,       \* context.secrets: the value stored under 'geminiApiKey'
    config,       \* the API key of the gitHelper configuration section
    gitignore     \* the content of the .gitignore file the ignore command appends to

vars == <<build, workspace, dirs, files, unreadable, loc, timer, cycles, statusBar, pulls,
          run, secret, config, gitignore>>

fsVars == <<dirs, files, unreadable>>
pollVars == <<timer, cycles, statusBar, pulls>>
cmdVars == <<run, secret, config, gitignore>>

-----------------------------------------------------------------------------
(* Bounds of the model *)

\* the deepest directory of the tree, counted in entries below the root
MaxTreeDepth == 6
\* the number of directories and files of a wide tree
MaxEntries == 4
\* the number of directories that cannot be read
MaxUnreadable == 1
\* the number of timer callbacks that can be in flight at once
MaxCycles == 1
\* the number of timer callbacks in flight at once where ticks are let to
\* overlap
MaxOverlap == 2
\* the largest behind count git status reports
MaxBehind == 1
\* the timer fires while fewer notifications and pulls than this await their
\* answer
MaxPending == 1
\* the most entries a multi-select is answered with
MaxSelected == 2
\* the longest .gitignore, in pieces, the ignore command still appends to
MaxFileLen == 2

-----------------------------------------------------------------------------
(* Program constants *)

\* if (depth > 4) return;
MaxDepth == 4

\* scanDir: !['node_modules', '.git', 'dist', 'build'].includes(file.name)
ScanDirExcluded == {"node_modules", ".git", "dist", "build"}

\* findRepos: !['node_modules', 'dist'].includes(file.name)
FindReposExcluded == {"node_modules", "dist"}

\* getAllFilesRecursively: file === '.git' || ... || file === '.vscode'
GetAllFilesExcluded == {".git", "node_modules", "dist", "build", ".vscode"}

\* the names the specification calls excluded: version-control metadata,
\* dependency caches, build output
ExcludedNames == {".git", "node_modules", "dist", "build"}

-----------------------------------------------------------------------------
(* Paths *)

Root == <<>>

\* path.join(dir, name)
Join(dir, name) == Append(dir, name)

\* path.basename(p) for a path below the root
Basename(p) == p[Len(p)]

Parent(p) == SubSeq(p, 1, Len(p) - 1)

IsPrefix(p, q) == Len(p) <= Len(q) /\ SubSeq(q, 1, Len(p)) = p

\* q lies strictly inside p
StrictlyInside(q, p) == IsPrefix(p, q) /\ p # q

\* path.relative(rootDir, fullPath) for fullPath under rootDir
Relative(rootDir, fullPath) == SubSeq(fullPath, Len(rootDir) + 1, Len(fullPath))

RECURSIVE Spine(_)
Spine(n) == IF n = 0 THEN <<>> ELSE Append(Spine(n - 1), "a")

\* The entry names in the order fs.readdirSync lists them
NameOrder == <<".git", "Root", "a", "b", "build", "f", "node_modules">>

NameIndex(name) == CHOOSE i \in 1..Len(NameOrder) : NameOrder[i] = name

\* The trees of the model are cut from two families.  A deep tree is a
\* spine a/a/.../a with repositories at its deepest levels
DeepUniverse ==
    {Spine(n) : n \in 1..MaxTreeDepth}
    \cup {Join(Spine(n), ".git") : n \in {MaxDepth + 1, MaxDepth + 2} \cap (0..MaxTreeDepth)}

\* A wide tree has at most MaxEntries of these shallow directories and files
WideDirs ==
    {<<".git">>, <<"a">>, <<"a", ".git">>, <<"a", "a">>, <<"a", "a", ".git">>, <<"a", "build">>,
     <<"b">>, <<"b", ".git">>,
     <<"build">>, <<"build", ".git">>, <<"node_modules">>,
     <<"Root">>, <<"Root", ".git">>}

FileUniverse == {<<"f">>, <<"a", "f">>}

DirUniverse == DeepUniverse \cup WideDirs

\* the directories of the trees the poller is run on
PollUniverse == {<<".git">>, <<"a">>, <<"a", ".git">>}

InFamily(E) ==
    \/ E \subseteq DeepUniverse
    \/ E \subseteq WideDirs \cup FileUniverse /\ Cardinality(E) <= MaxEntries

-----------------------------------------------------------------------------
(* The filesystem collaborator *)

FS == [dirs |-> dirs, files |-> files, unreadable |-> unreadable]

\* fs.existsSync(p)
existsSync(F, p) == p = Root \/ p \in F.dirs \/ p \in F.files

\* dirent.isDirectory() / stat.isDirectory()
isDirectory(F, p) == p = Root \/ p \in F.dirs

\* the entries of dir, unordered
Entries(F, dir) == {p \in F.dirs \cup F.files : Len(p) = Len(dir) + 1 /\ Parent(p) = dir}

RECURSIVE SortNames(_)
SortNames(S) ==
    IF S = {} THEN <<>>
    ELSE LET m == CHOOSE x \in S : \A y \in S : NameIndex(x) <= NameIndex(y)
         IN <<m>> \o SortNames(S \ {m})

\* fs.readdirSync(dir): the names of dir's entries, or an exception
readdirSync(F, dir) ==
    IF dir \in F.unreadable
    THEN [err |-> TRUE, list |-> <<>>]
    ELSE [err |-> FALSE, list |-> SortNames({Basename(p) : p \in Entries(F, dir)})]

-----------------------------------------------------------------------------
(* Repository Locator: the scans *)

\* what a scan has done so far: the candidates pushed, the directories
\* readdirSync was called on, and whether an exception is propagating
EmptyScan == [cands |-> <<>>, reads |-> <<>>, threw |-> FALSE]

\* the depth test letting one more level through
TooDeepOffByOne(depth, maxDepth) == depth > maxDepth + 1

\* if (depth > 4) return;
TooDeep(depth, maxDepth) == depth > maxDepth

\* a scan without the try/catch: the exception goes on to the caller
catchMissing(acc) == acc

\* catch(e) {} of scanDir, findRepos and getAllFilesRecursively
catchIgnore(acc) == [acc EXCEPT !.threw = FALSE]

\* the throw of fs.readdirSync
throwFrom(acc) == [acc EXCEPT !.threw = TRUE]

PublishCandidate(name, description, p) ==
    [label |-> <<"$(file-directory)", name>>, description |-> description, path |-> p]

\* a scan that offers repositories too
scanDirOffersAll(hasGit) == TRUE

\* if (!hasGit) candidates.push(...)
scanDirOffers(hasGit) == ~hasGit

RECURSIVE scanDir(_, _, _, _, _), scanDirLoop(_, _, _, _, _, _)

\* function scanDir(dir, depth) of pickFolderToPublish
scanDir(F, dir, depth, maxDepth, acc) ==
    IF TooDeep(depth, maxDepth) THEN acc
    ELSE LET r == readdirSync(F, dir)
             a1 == [acc EXCEPT !.reads = Append(@, dir)]
         IN catchIgnore(IF r.err THEN throwFrom(a1)
                        ELSE scanDirLoop(F, dir, depth, maxDepth, r.list, a1))

\* for (const file of files) { ... } of scanDir
scanDirLoop(F, dir, depth, maxDepth, list, acc) ==
    IF list = <<>> \/ acc.threw THEN acc
    ELSE LET name == Head(list)
             subPath == Join(dir, name)
             a1 == IF isDirectory(F, subPath) /\ name \notin ScanDirExcluded
                   THEN LET hasGit == existsSync(F, Join(subPath, ".git"))
                            a2 == IF scanDirOffers(hasGit)
                                  THEN [acc EXCEPT !.cands = Append(@,
                                           PublishCandidate(name, Relative(Root, subPath), subPath))]
                                  ELSE acc
                        IN scanDir(F, subPath, depth + 1, maxDepth, a2)
                   ELSE acc
         IN scanDirLoop(F, dir, depth, maxDepth, Tail(list), a1)

\* pickFolderToPublish up to its showQuickPick: the root check, then scanDir(rootPath, 0)
publishScan(F, maxDepth) ==
    LET a0 == IF ~existsSync(F, Join(Root, ".git"))
              THEN [EmptyScan EXCEPT !.cands = <<PublishCandidate("Root", <<"Current Workspace">>, Root)>>]
              ELSE EmptyScan
    IN scanDir(F, Root, 0, maxDepth, a0)

RECURSIVE findRepos(_, _, _, _, _), findReposLoop(_, _, _, _, _, _)

\* a findRepos that keeps digging below a repository
findReposAlwaysDescends(hasGit) == TRUE

\* whether findRepos goes on below a subdirectory: only if it is not a repository
findReposDescends(hasGit) == ~hasGit

\* function findRepos(dir, depth) of getRepoOrPickOne
findRepos(F, dir, depth, maxDepth, acc) ==
    IF TooDeep(depth, maxDepth) THEN acc
    ELSE LET r == readdirSync(F, dir)
             a1 == [acc EXCEPT !.reads = Append(@, dir)]
         IN catchIgnore(IF r.err THEN throwFrom(a1)
                        ELSE findReposLoop(F, dir, depth, maxDepth, r.list, a1))

\* for (const file of files) { ... } of findRepos
findReposLoop(F, dir, depth, maxDepth, list, acc) ==
    IF list = <<>> \/ acc.threw THEN acc
    ELSE LET name == Head(list)
             subPath == Join(dir, name)
             a1 == IF isDirectory(F, subPath) /\ name \notin FindReposExcluded
                   THEN LET hasGit == existsSync(F, Join(subPath, ".git"))
                            a2 == IF hasGit
                                  THEN [acc EXCEPT !.cands = Append(@, [label |-> name, path |-> subPath])]
                                  ELSE acc
                        IN IF findReposDescends(hasGit)
                           THEN findRepos(F, subPath, depth + 1, maxDepth, a2)
                           ELSE a2
                   ELSE acc
         IN findReposLoop(F, dir, depth, maxDepth, Tail(list), a1)

\* getRepoOrPickOne up to its result: the root check, then findRepos(rootPath, 0)
repoScan(F, maxDepth) ==
    LET a0 == IF existsSync(F, Join(Root, ".git"))
              THEN [EmptyScan EXCEPT !.cands = <<[label |-> "Root", path |-> Root]>>]
              ELSE EmptyScan
    IN findRepos(F, Root, 0, maxDepth, a0)

RECURSIVE getAllFilesRecursively(_, _, _, _), getAllFilesLoop(_, _, _, _, _)

\* function getAllFilesRecursively(dir, rootDir); a folder's label is its
\* relative path followed by '/', written here as a trailing empty segment
getAllFilesRecursively(F, dir, rootDir, acc) ==
    LET r == readdirSync(F, dir)
        a1 == [acc EXCEPT !.reads = Append(@, dir)]
    IN catchIgnore(IF r.err THEN throwFrom(a1)
                   ELSE getAllFilesLoop(F, dir, rootDir, r.list, a1))

\* list.forEach(file => { ... }) of getAllFilesRecursively
getAllFilesLoop(F, dir, rootDir, list, acc) ==
    IF list = <<>> \/ acc.threw THEN acc
    ELSE LET file == Head(list)
             fullPath == Join(dir, file)
             relativePath == Relative(rootDir, fullPath)
             a1 == IF file \in GetAllFilesExcluded THEN acc
                   ELSE IF isDirectory(F, fullPath)
                   THEN getAllFilesRecursively(F, fullPath, rootDir,
                            [acc EXCEPT !.cands = Append(@,
                                [label |-> Append(relativePath, ""), description |-> "Folder"])])
                   ELSE [acc EXCEPT !.cands = Append(@,
                            [label |-> relativePath, description |-> "File"])]
         IN getAllFilesLoop(F, dir, rootDir, Tail(list), a1)

-----------------------------------------------------------------------------
(* Repository Locator: the helpers and the commands that call them *)

\* a JavaScript value that is either undefined or a path
Undefined == [defined |-> FALSE, path |-> <<>>]
Defined(p) == [defined |-> TRUE, path |-> p]

Builds == {"extension.js", "part_001"}
RepoCommands == {"ignoreFiles", "aiCommit", "showGraph"}

IdleLoc == [cmd |-> "none", pc |-> "idle", cands |-> <<>>, reads |-> <<>>, threw |-> FALSE,
            picked |-> 0, ret |-> Undefined, errors |-> <<>>, target |-> Undefined,
            items |-> <<>>, itemReads |-> <<>>]

\* a pickFolderToPublish that returns undefined when nothing was found
publishNoCandidatesUndefined == Undefined

\* if (candidates.length === 0) return rootPath;
publishNoCandidates == Defined(Root)

\* pickFolderToPublish, up to its return or its showQuickPick: the invocation's next state
pickFolderToPublish ==
    IF ~workspace
    THEN [IdleLoc EXCEPT !.cmd = "publishRepo", !.pc = "ret"]
    ELSE LET scan == publishScan(FS, MaxDepth)
             l == [IdleLoc EXCEPT !.cmd = "publishRepo", !.cands = scan.cands,
                                  !.reads = scan.reads, !.threw = scan.threw]
         IN IF Len(scan.cands) = 0
            THEN [l EXCEPT !.pc = "ret", !.ret = publishNoCandidates]
            ELSE [l EXCEPT !.pc = "pick"]

\* if (repos.length === 0) { showErrorMessage('No Git repositories found.'); return undefined; }
repoNoneFound(l) == [l EXCEPT !.pc = "ret", !.ret = Undefined,
                              !.errors = Append(@, "No Git repositories found.")]

\* getRepoOrPickOne, up to its return or its showQuickPick: the invocation's next state
getRepoOrPickOne(cmd) ==
    IF ~workspace
    THEN [IdleLoc EXCEPT !.cmd = cmd, !.pc = "ret", !.errors = <<"No workspace open">>]
    ELSE LET scan == repoScan(FS, MaxDepth)
             l == [IdleLoc EXCEPT !.cmd = cmd, !.cands = scan.cands,
                                  !.reads = scan.reads, !.threw = scan.threw]
         IN IF Len(scan.cands) = 0 THEN repoNoneFound(l)
            ELSE IF Len(scan.cands) = 1
            THEN [l EXCEPT !.pc = "ret", !.ret = Defined(scan.cands[1].path)]
            ELSE [l EXCEPT !.pc = "pick"]

\* repos.find(r => r.label === picked).path
findByLabel(repos, picked) ==
    repos[CHOOSE i \in 1..Len(repos) :
            /\ repos[i].label = picked
            /\ \A j \in 1..(i - 1) : repos[j].label # picked].path

\* the caller after the await: if (!targetFolder) return; / if (!folder) return;
\* otherwise the command goes on with that folder (simpleGit(folder), and for
\* ignoreFiles the scan getAllFilesRecursively(folder, folder)).  The
\* continuation runs in the same turn of the event loop as the return.
commandResume(l) ==
    IF ~l.ret.defined
    THEN [l EXCEPT !.pc = "done"]
    ELSE LET scan == IF l.cmd = "ignoreFiles"
                     THEN getAllFilesRecursively(FS, l.ret.path, l.ret.path, EmptyScan)
                     ELSE EmptyScan
         IN [l EXCEPT !.pc = "done", !.target = l.ret,
                      !.items = scan.cands, !.itemReads = scan.reads,
                      !.threw = l.threw \/ scan.threw]

\* publishCommand up to the first prompt: pickFolderToPublish
publishRepo ==
    /\ loc.pc \in {"idle", "done"}
    /\ loc' = LET l == pickFolderToPublish IN IF l.pc = "ret" THEN commandResume(l) ELSE l
    /\ UNCHANGED <<build, workspace, fsVars, pollVars>>

\* ignoreCommand, aiCommitCommand, graphCommand up to the first prompt: getRepoOrPickOne
repoCommand(cmd) ==
    /\ loc.pc \in {"idle", "done"}
    /\ loc' = LET l == getRepoOrPickOne(cmd) IN IF l.pc = "ret" THEN commandResume(l) ELSE l
    /\ UNCHANGED <<build, workspace, fsVars, pollVars>>

\* return selected ? selected.path : undefined;  (pickFolderToPublish)
\* return picked ? repos.find(r => r.label === picked).path : undefined;  (getRepoOrPickOne)
pickResult(l, i) ==
    IF i = 0 THEN Undefined
    ELSE IF l.cmd = "publishRepo" THEN Defined(l.cands[i].path)
    ELSE Defined(findByLabel(l.cands, l.cands[i].label))

\* the user picks entry i of the quick pick, or dismisses it (i = 0)
quickPick(i) ==
    /\ loc.pc = "pick"
    /\ i \in 0..Len(loc.cands)
    /\ loc' = commandResume([loc EXCEPT !.pc = "ret", !.picked = i, !.ret = pickResult(loc, i)])
    /\ UNCHANGED <<build, workspace, fsVars, pollVars>>

-----------------------------------------------------------------------------
(* The environment: the user's files change between command invocations;    *)
(* the candidates of a finished invocation are gone by then                 *)

NoCommandRunning == loc.pc \in {"idle", "done"}

Mkdir(U, p) ==
    /\ workspace /\ NoCommandRunning
    /\ p \in U \ dirs
    /\ Parent(p) = Root \/ Parent(p) \in dirs
    /\ InFamily(dirs \cup files \cup {p})
    /\ dirs' = dirs \cup {p}
    /\ loc' = IdleLoc
    /\ UNCHANGED <<build, workspace, files, unreadable>>

Rmdir(p) ==
    /\ NoCommandRunning
    /\ p \in dirs
    /\ \A q \in dirs \cup files : ~StrictlyInside(q, p)
    /\ dirs' = dirs \ {p}
    /\ unreadable' = unreadable \ {p}
    /\ loc' = IdleLoc
    /\ UNCHANGED <<build, workspace, files>>

CreateFile(p) ==
    /\ workspace /\ NoCommandRunning
    /\ p \in FileUniverse \ files
    /\ Parent(p) = Root \/ Parent(p) \in dirs
    /\ InFamily(dirs \cup files \cup {p})
    /\ files' = files \cup {p}
    /\ loc' = IdleLoc
    /\ UNCHANGED <<build, workspace, dirs, unreadable, pollVars>>

Unlink(p) ==
    /\ NoCommandRunning
    /\ p \in files
    /\ files' = files \ {p}
    /\ loc' = IdleLoc
    /\ UNCHANGED <<build, workspace, dirs, unreadable, pollVars>>

\* chmod: a directory (the root included) loses or regains read permission
Chmod(p) ==
    /\ workspace /\ NoCommandRunning
    /\ p \in dirs \cup {Root}
    /\ \/ p \in unreadable /\ unreadable' = unreadable \ {p}
       \/ p \notin unreadable /\ Cardinality(unreadable) < MaxUnreadable
                              /\ unreadable' = unreadable \cup {p}
    /\ loc' = IdleLoc
    /\ UNCHANGED <<build, workspace, dirs, files>>

-----------------------------------------------------------------------------
(* Remote-Status Poller: startBackgroundCheck *)

\* path.basename(repoPath); the workspace folder itself is called "workspace"
RepoName(p) == IF p = Root THEN "workspace" ELSE Basename(p)

\* a slot for one invocation of the timer callback: where it is (pc), the
\* repositories it found, the one it is at, and what it has done so far
FreeCycle == [pc |-> "free", repoPaths |-> <<>>, i |-> 0, calls |-> <<>>,
              reported |-> <<>>, notes |-> <<>>, bar |-> <<>>]

\* a poller that takes the workspace root for a repository whatever it holds
pollRootAlways(F) == TRUE

\* if (fs.existsSync(path.join(rootPath, '.git'))) repoPaths.push(rootPath);
pollRootIsRepo(F) == existsSync(F, Join(Root, ".git"))

RECURSIVE pollSubdirs(_, _, _)
\* for (const file of files) { if (file.isDirectory()) { ... repoPaths.push(subPath) } }
pollSubdirs(F, list, acc) ==
    IF list = <<>> THEN acc
    ELSE LET subPath == Join(Root, Head(list))
         IN pollSubdirs(F, Tail(list),
                IF isDirectory(F, subPath) /\ existsSync(F, Join(subPath, ".git"))
                THEN Append(acc, subPath) ELSE acc)

\* a quick scan that keeps the repositories of a finished cycle, if there is one
pollScanCached(F) ==
    IF \E c \in 1..MaxCycles : cycles[c].pc \in {"free", "done"} /\ cycles[c].repoPaths # <<>>
    THEN cycles[CHOOSE c \in 1..MaxCycles :
                   cycles[c].pc \in {"free", "done"} /\ cycles[c].repoPaths # <<>>].repoPaths
    ELSE LET r0 == IF pollRootIsRepo(F) THEN <<Root>> ELSE <<>>
             r == readdirSync(F, Root)
         IN IF r.err THEN r0 ELSE pollSubdirs(F, r.list, r0)

\* the quick scan of the timer callback: the root, then one level below it
pollScan(F) ==
    LET r0 == IF pollRootIsRepo(F) THEN <<Root>> ELSE <<>>
        r == readdirSync(F, Root)
    IN IF r.err THEN r0 ELSE pollSubdirs(F, r.list, r0)

Call(op, repo) == [op |-> op, repo |-> repo]

\* a loop that starts the fetch of every remaining repository at once
fetchAhead(cy) ==
    IF cy.i < Len(cy.repoPaths)
    THEN [cy EXCEPT !.i = cy.i + 1, !.pc = "fetch",
                    !.calls = @ \o [k \in 1..(Len(cy.repoPaths) - cy.i) |->
                                        Call("fetch", cy.repoPaths[cy.i + k])]]
    ELSE [cy EXCEPT !.pc = "done"]

\* the for loop moves to the next repository (and awaits its fetch) or ends
nextRepo(cy) ==
    IF cy.i < Len(cy.repoPaths)
    THEN [cy EXCEPT !.i = cy.i + 1, !.pc = "fetch",
                    !.calls = Append(@, Call("fetch", cy.repoPaths[cy.i + 1]))]
    ELSE [cy EXCEPT !.pc = "done"]

\* a catch block that gives up the rest of the cycle
catchBreak(cy) == [cy EXCEPT !.pc = "done"]

\* } catch (e) { }   the loop goes on with the next repository
catchSkip(cy) == nextRepo(cy)

\* a timer callback, run in the first free slot c, up to its first await
tick(c) ==
    /\ timer /\ Cardinality(pulls) < MaxPending
    /\ cycles[c].pc \in {"free", "done"}
    /\ \A d \in 1..(c - 1) : cycles[d].pc \notin {"free", "done"}
    /\ cycles' = [cycles EXCEPT ![c] =
          IF ~workspace THEN [FreeCycle EXCEPT !.pc = "done"]
          ELSE nextRepo([FreeCycle EXCEPT !.repoPaths = pollScan(FS)])]
    /\ UNCHANGED <<build, workspace, fsVars, loc, timer, statusBar, pulls>>

\* await git.fetch() comes back: on success git.status() is awaited, on
\* failure the catch block ends this repository's turn
fetchDone(c, ok) ==
    /\ cycles[c].pc = "fetch"
    /\ LET cy == cycles[c]
       IN cycles' = [cycles EXCEPT ![c] =
             IF ok THEN [cy EXCEPT !.pc = "status",
                                   !.calls = Append(@, Call("status", cy.repoPaths[cy.i]))]
             ELSE catchSkip(cy)]
    /\ UNCHANGED <<build, workspace, fsVars, loc, timer, statusBar, pulls>>

\* a test that takes a repository that is level with its remote for one behind
behindOrLevel(behind) == behind >= 0

\* if (status.behind > 0)
isBehind(behind) == behind > 0

\* statusBarItem.text = `$(cloud-download) ${repoName}: ${status.behind}...`; statusBarItem.show();
showBehind(repo, behind) == [text |-> <<RepoName(repo), behind>>, visible |-> TRUE]

Note(repo, behind) == [repo |-> repo, name |-> RepoName(repo), behind |-> behind]

\* await git.status() comes back.  extension.js goes on to the author query
\* when the repository is behind; part_001 sets the status bar and breaks
statusDone(c, ok, behind) ==
    /\ cycles[c].pc = "status"
    /\ LET cy == cycles[c]
           repo == cy.repoPaths[cy.i]
           cy1 == [cy EXCEPT !.reported = Append(@, Note(repo, behind))]
       IN IF ~ok
          THEN /\ cycles' = [cycles EXCEPT ![c] = catchSkip(cy)]
               /\ UNCHANGED statusBar
          ELSE IF ~isBehind(behind)
          THEN /\ cycles' = [cycles EXCEPT ![c] = nextRepo(cy1)]
               /\ UNCHANGED statusBar
          ELSE IF build = "extension.js"
          THEN /\ cycles' = [cycles EXCEPT ![c] =
                     [cy1 EXCEPT !.pc = "raw", !.calls = Append(@, Call("log", repo))]]
               /\ UNCHANGED statusBar
          ELSE /\ cycles' = [cycles EXCEPT ![c] =
                     [cy1 EXCEPT !.pc = "done", !.bar = Append(@, Note(repo, behind))]]
               /\ statusBar' = showBehind(repo, behind)
    /\ UNCHANGED <<build, workspace, fsVars, loc, timer, pulls>>

\* await git.raw(['log', 'HEAD..@{u}', ...]) comes back (extension.js): on
\* success the status bar is set, the notification is shown and the loop
\* breaks; on failure the catch block ends this repository's turn
rawDone(c, ok) ==
    /\ cycles[c].pc = "raw"
    /\ LET cy == cycles[c]
           repo == cy.repoPaths[cy.i]
           behind == cy.reported[Len(cy.reported)].behind
       IN IF ok
          THEN /\ cycles' = [cycles EXCEPT ![c] =
                     [cy EXCEPT !.pc = "done", !.bar = Append(@, Note(repo, behind)),
                                !.notes = Append(@, Note(repo, behind))]]
               /\ statusBar' = showBehind(repo, behind)
               /\ pulls' = pulls \cup {[repo |-> repo, pc |-> "shown"]}
          ELSE /\ cycles' = [cycles EXCEPT ![c] = catchSkip(cy)]
               /\ UNCHANGED <<statusBar, pulls>>
    /\ UNCHANGED <<build, workspace, fsVars, loc, timer>>

\* the user answers a notification: 'Sync Now' awaits git.pull(), anything
\* else drops it
notificationAnswered(n, sel) ==
    /\ n \in pulls /\ n.pc = "shown"
    /\ pulls' = IF sel = "Sync Now"
                THEN (pulls \ {n}) \cup {[n EXCEPT !.pc = "pulling"]}
                ELSE pulls \ {n}
    /\ UNCHANGED <<build, workspace, fsVars, loc, timer, cycles, statusBar>>

\* await git.pull() comes back: statusBarItem.hide() runs only on success
pullDone(n, ok) ==
    /\ n \in pulls /\ n.pc = "pulling"
    /\ pulls' = pulls \ {n}
    /\ statusBar' = IF ok THEN [statusBar EXCEPT !.visible = FALSE] ELSE statusBar
    /\ UNCHANGED <<build, workspace, fsVars, loc, timer, cycles>>

\* a shutdown that also drops the callbacks in flight
deactivateAborting ==
    /\ timer
    /\ timer' = FALSE
    /\ cycles' = [c \in DOMAIN cycles |->
                    IF cycles[c].pc = "free" THEN cycles[c] ELSE catchBreak(cycles[c])]
    /\ UNCHANGED <<build, workspace, fsVars, loc, statusBar, pulls>>

\* function deactivate() { if (checkInterval) clearInterval(checkInterval); }
deactivate ==
    /\ timer
    /\ timer' = FALSE
    /\ UNCHANGED <<build, workspace, fsVars, loc, cycles, statusBar, pulls>>

\* the user's repositories change between poll cycles, as long as there is
\* a timer to read them again; the slots of finished cycles are freed and
\* keep only the repositories those cycles saw
NoCycleRunning == \A c \in DOMAIN cycles : cycles[c].pc \in {"free", "done"}

Forget(cy) == [FreeCycle EXCEPT !.repoPaths = cy.repoPaths]

PollMkdir(p) ==
    /\ timer /\ NoCycleRunning
    /\ Mkdir(PollUniverse, p)
    /\ cycles' = [c \in DOMAIN cycles |-> Forget(cycles[c])]
    /\ UNCHANGED <<timer, statusBar, pulls>>

PollRmdir(p) ==
    /\ timer /\ NoCycleRunning
    /\ Rmdir(p)
    /\ cycles' = [c \in DOMAIN cycles |-> Forget(cycles[c])]
    /\ UNCHANGED <<timer, statusBar, pulls>>

PollChmod ==
    /\ timer /\ NoCycleRunning
    /\ Chmod(Root)
    /\ cycles' = [c \in DOMAIN cycles |-> Forget(cycles[c])]
    /\ UNCHANGED <<timer, statusBar, pulls>>

-----------------------------------------------------------------------------
(* The commands, past the locator *)

\* no command runs past its locator
IdleRun == [cmd |-> "none", pc |-> "idle", folder |-> Undefined, calls |-> <<>>,
            msgs |-> <<>>, options |-> <<>>, response |-> Undefined, key |-> Undefined,
            url |-> <<>>, before |-> <<>>, added |-> <<>>, unhandled |-> 0]

\* a text is a sequence of pieces; these pieces have a meaning to the code
Space == " "
LF == <<"\n">>
Placeholder == "PUT_YOUR_DEFAULT_KEY"

\* the API keys a user or the package can supply; Undefined is no key
KeyTexts == {<<>>, <<Space>>, <<"k1">>, <<Space, "k2">>, <<Placeholder, "_HERE">>}

RECURSIVE trim(_)
\* String.prototype.trim
trim(text) ==
    IF text = <<>> THEN text
    ELSE IF Head(text) = Space THEN trim(Tail(text))
    ELSE IF text[Len(text)] = Space THEN trim(SubSeq(text, 1, Len(text) - 1))
    ELSE text

\* a test that takes only the empty text for no answer
emptyOnly(v) == v.defined /\ v.path = <<>>

\* !value for a string or undefined
Falsy(v) == ~v.defined \/ v.path = <<>>

\* apiKey.includes('PUT_YOUR_DEFAULT_KEY')
includesPlaceholder(text) == \E k \in 1..Len(text) : text[k] = Placeholder

\* a message shown to the user, and a call on git, the AI service or the host
Msg(kind, text) == [kind |-> kind, text |-> text]
Op(op, arg) == [op |-> op, arg |-> arg]

showErrorMessage(r, text) == [r EXCEPT !.msgs = Append(@, Msg("error", text))]
showInformationMessage(r, text) == [r EXCEPT !.msgs = Append(@, Msg("info", text))]
issue(r, op, arg, pc) == [r EXCEPT !.calls = Append(@, Op(op, arg)), !.pc = pc]
finish(r) == [r EXCEPT !.pc = "done"]

\* a rejection nothing handles
unhandledRejection(r) == [r EXCEPT !.pc = "done", !.unhandled = @ + 1]

ErrorsShown(r) == {k \in 1..Len(r.msgs) : r.msgs[k].kind = "error"}

\* what showInputBox can resolve to: undefined (dismissed), '' or a text
Urls == {<<>>, <<"url">>}
InputBoxValues(texts) == {Undefined} \cup {Defined(t) : t \in texts}

\* a command between its start and the answer to its folder or repository picker
Locating(cmd) == [IdleRun EXCEPT !.cmd = cmd, !.pc = "locator"]

CommandIdle == run.pc \in {"idle", "done"} /\ loc.pc \in {"idle", "done"}

\* --- git-helper.publishRepo ---

\* } catch (err) { vscode.window.showErrorMessage('Publish failed: ' + err.message); }
publishFailed(r) == finish(showErrorMessage(r, "Publish failed"))

\* if (!targetFolder) return;  ...  if (!isRepo) await git.init();  then showInputBox
publishBody(targetFolder) ==
    IF ~targetFolder.defined
    THEN [IdleRun EXCEPT !.cmd = "publishRepo", !.pc = "done"]
    ELSE LET r == [IdleRun EXCEPT !.cmd = "publishRepo", !.folder = targetFolder]
             isRepo == existsSync(FS, Join(targetFolder.path, ".git"))
         IN IF ~isRepo THEN issue(r, "init", <<>>, "init")
            ELSE [r EXCEPT !.pc = "remoteUrl"]

\* an addRemote whose failure ends the command like any other
afterAddRemoteStrict(r, ok) ==
    IF ok THEN issue(r, "add", <<".">>, "add") ELSE publishFailed(r)

\* try { await git.addRemote('origin', remoteUrl); } catch(e) {}   await git.add('.');
afterAddRemote(r, ok) == issue(r, "add", <<".">>, "add")

\* the continuation of publishCommand after the git call it awaited
publishAfter(r, ok) ==
    IF r.pc = "addRemote" THEN afterAddRemote(r, ok)
    ELSE IF ~ok THEN publishFailed(r)
    ELSE IF r.pc = "init" THEN [r EXCEPT !.pc = "remoteUrl"]
    ELSE IF r.pc = "add" THEN issue(r, "commit", <<"Initial commit">>, "commit")
    ELSE IF r.pc = "commit" THEN issue(r, "branch", <<"-M", "main">>, "branch")
    ELSE IF r.pc = "branch" THEN issue(r, "push", <<"-u", "origin", "main">>, "push")
    ELSE finish(showInformationMessage(r, "Successfully published"))

\* publishCommand up to its first prompt or git call
publishCommand ==
    /\ CommandIdle
    /\ publishRepo
    /\ run' = IF loc'.pc = "done" THEN publishBody(loc'.target) ELSE Locating("publishRepo")
    /\ UNCHANGED <<secret, config, gitignore>>

\* the user answers 'Enter GitHub Remote URL':  if (remoteUrl) { addRemote ... }
remoteUrlAnswered(remoteUrl) ==
    /\ run.cmd = "publishRepo" /\ run.pc = "remoteUrl"
    /\ run' = IF Falsy(remoteUrl) THEN finish(run)
              ELSE issue(run, "addRemote", remoteUrl.path, "addRemote")
    /\ UNCHANGED <<build, workspace, fsVars, pollVars, loc, secret, config, gitignore>>

\* a git call of publishCommand comes back; a successful init creates .git
publishGitDone(ok) ==
    /\ run.cmd = "publishRepo"
    /\ run.pc \in {"init", "addRemote", "add", "commit", "branch", "push"}
    /\ run' = publishAfter(run, ok)
    /\ dirs' = IF run.pc = "init" /\ ok THEN dirs \cup {Join(run.folder.path, ".git")} ELSE dirs
    /\ UNCHANGED <<build, workspace, files, unreadable, pollVars, loc, secret, config, gitignore>>

\* --- git-helper.ignoreFiles ---

\* the contents .gitignore can have before the command: empty, a line
\* without its newline, a newline-terminated line
IgnoreContents == {<<>>, <<<<"x">>>>, <<<<"x">>, LF>>}

RECURSIVE join(_, _)
\* Array.prototype.join
join(lines, sep) ==
    IF lines = <<>> THEN <<>>
    ELSE IF Len(lines) = 1 THEN <<lines[1]>>
    ELSE <<lines[1], sep>> \o join(Tail(lines), sep)

\* an appended text without the leading newline
ignoreContentNoLead(linesToAdd) == join(linesToAdd, LF) \o <<LF>>

\* const content = '\n' + linesToAdd.join('\n') + '\n';
ignoreContent(linesToAdd) == <<LF>> \o join(linesToAdd, LF) \o <<LF>>

\* the selections a multi-select quick pick over n items can resolve to
Selections(n) ==
    {s \in UNION {[1..k -> 1..n] : k \in 0..MaxSelected} :
        \A i, j \in 1..Len(s) : i # j => s[i] # s[j]}

\* if (!folder) return;  withProgress(... getAllFilesRecursively(folder, folder);
\* if (files.length === 0) { showInformationMessage('No files found to ignore.'); return; }
ignoreBody(l) ==
    IF ~l.target.defined
    THEN [IdleRun EXCEPT !.cmd = "ignoreFiles", !.pc = "done"]
    ELSE LET r == [IdleRun EXCEPT !.cmd = "ignoreFiles", !.folder = l.target,
                                  !.options = l.items]
         IN IF Len(l.items) = 0
            THEN finish(showInformationMessage(r, "No files found to ignore."))
            ELSE [r EXCEPT !.pc = "pickMany"]

\* the multi-select resolves (dismissed: undefined):
\* if (selected && selected.length > 0) { appendFileSync(...); showInformationMessage(...) }
\* and an exception of appendFileSync reaches the catch of the progress task
filesPicked(dismissed, selected, ok) ==
    /\ run.cmd = "ignoreFiles" /\ run.pc = "pickMany"
    /\ selected \in Selections(Len(run.options))
    /\ Len(gitignore) <= MaxFileLen
    /\ LET linesToAdd == [k \in 1..Len(selected) |-> run.options[selected[k]].label]
           content == ignoreContent(linesToAdd)
       IN IF dismissed \/ Len(selected) = 0
          THEN /\ run' = finish(run)
               /\ UNCHANGED gitignore
          ELSE IF ok
          THEN /\ gitignore' = gitignore \o content
               /\ run' = finish(showInformationMessage(
                             [issue(run, "appendFileSync", <<>>, run.pc)
                                 EXCEPT !.before = gitignore, !.added = linesToAdd],
                             "Added items to .gitignore"))
          ELSE /\ run' = finish(showErrorMessage(issue(run, "appendFileSync", <<>>, run.pc),
                                                 "Error reading folder"))
               /\ UNCHANGED gitignore
    /\ UNCHANGED <<build, workspace, fsVars, pollVars, loc, secret, config>>

\* --- git-helper.cloneRepo ---

\* cloneCommand up to showInputBox({ placeHolder: 'Git Repo URL' })
cloneCommand ==
    /\ CommandIdle
    /\ run' = [IdleRun EXCEPT !.cmd = "cloneRepo", !.pc = "repoUrl"]
    /\ loc' = IdleLoc
    /\ UNCHANGED <<build, workspace, fsVars, pollVars, secret, config, gitignore>>

\* if (!repoUrl) return;  then showOpenDialog
repoUrlAnswered(repoUrl) ==
    /\ run.cmd = "cloneRepo" /\ run.pc = "repoUrl"
    /\ run' = IF Falsy(repoUrl) THEN finish(run)
              ELSE [run EXCEPT !.pc = "destination", !.url = repoUrl.path]
    /\ UNCHANGED <<build, workspace, fsVars, pollVars, loc, secret, config, gitignore>>

\* if (folderUri && folderUri[0]) { withProgress(... await simpleGit().clone(...)) }
destinationAnswered(folderUri) ==
    /\ run.cmd = "cloneRepo" /\ run.pc = "destination"
    /\ run' = IF ~folderUri.defined THEN finish(run)
              ELSE issue([run EXCEPT !.folder = folderUri], "clone", run.url, "clone")
    /\ UNCHANGED <<build, workspace, fsVars, pollVars, loc, secret, config, gitignore>>

\* the clone comes back: 'Cloned. Open?' is asked, or catch (err) shows err.message
cloneDone(ok) ==
    /\ run.cmd = "cloneRepo" /\ run.pc = "clone"
    /\ run' = IF ok THEN [showInformationMessage(run, "Cloned. Open?") EXCEPT !.pc = "open"]
              ELSE finish(showErrorMessage(run, "err.message"))
    /\ UNCHANGED <<build, workspace, fsVars, pollVars, loc, secret, config, gitignore>>

\* if (open === 'Yes') vscode.commands.executeCommand('vscode.openFolder', ...)
openAnswered(open) ==
    /\ run.cmd = "cloneRepo" /\ run.pc = "open"
    /\ run' = IF open = "Yes" THEN finish(issue(run, "vscode.openFolder", <<>>, run.pc))
              ELSE finish(run)
    /\ UNCHANGED <<build, workspace, fsVars, pollVars, loc, secret, config, gitignore>>

\* --- git-helper.showGraph ---

\* if (!folder) return;  createWebviewPanel(...);  try { await git.log(['--all']) ...
graphBody(folder) ==
    IF ~folder.defined
    THEN [IdleRun EXCEPT !.cmd = "showGraph", !.pc = "done"]
    ELSE issue(issue([IdleRun EXCEPT !.cmd = "showGraph", !.folder = folder],
                     "createWebviewPanel", <<>>, "log"),
               "log", <<"--all">>, "log")

\* the log comes back: the panel gets its html, or catch (err) shows err.message
graphLogDone(ok) ==
    /\ run.cmd = "showGraph" /\ run.pc = "log"
    /\ run' = IF ok THEN finish(issue(run, "panel.webview.html", <<>>, run.pc))
              ELSE finish(showErrorMessage(run, "err.message"))
    /\ UNCHANGED <<build, workspace, fsVars, pollVars, loc, secret, config, gitignore>>

\* --- git-helper.setApiKey (part_001) ---

\* setKeyCommand up to showInputBox({ placeHolder: 'Enter your custom Gemini API Key' })
setKeyStart == [IdleRun EXCEPT !.cmd = "setApiKey", !.pc = "keyInput"]

setKeyCommand ==
    /\ build = "part_001"
    /\ CommandIdle
    /\ run' = setKeyStart
    /\ loc' = IdleLoc
    /\ UNCHANGED <<build, workspace, fsVars, pollVars, secret, config, gitignore>>

\* a key command that stores whatever was entered
storeAlways(newKey) == Defined(newKey)

\* if (newKey.trim() === '') secrets.delete('geminiApiKey') else secrets.store('geminiApiKey', newKey)
secretAfter(newKey) == IF trim(newKey) = <<>> THEN Undefined ELSE Defined(newKey)

\* the key input resolves:  if (newKey !== undefined) { delete or store }
keyAnswered(newKey) ==
    /\ run.cmd = "setApiKey" /\ run.pc = "keyInput"
    /\ IF ~newKey.defined
       THEN run' = finish(run) /\ UNCHANGED secret
       ELSE /\ secret' = secretAfter(newKey.path)
            /\ run' = IF secretAfter(newKey.path).defined
                      THEN issue(run, "secrets.store", newKey.path, "secretWrite")
                      ELSE issue(run, "secrets.delete", <<>>, "secretWrite")
    /\ UNCHANGED <<build, workspace, fsVars, pollVars, loc, config, gitignore>>

\* await context.secrets.delete / store comes back: the information message
secretWritten ==
    /\ run.cmd = "setApiKey" /\ run.pc = "secretWrite"
    /\ run' = finish(showInformationMessage(run,
                IF run.calls[Len(run.calls)].op = "secrets.store"
                THEN "Custom API Key saved securely!"
                ELSE "Custom key removed. Using default extension key."))
    /\ UNCHANGED <<build, workspace, fsVars, pollVars, loc, secret, config, gitignore>>

\* --- git-helper.aiCommit ---

\* the response texts of the generative service, in pieces: a JSON array of
\* strings, a fenced JSON array of objects, an array in blanks, an empty
\* array, prose, a truncated array, fenced prose, nothing
\* the pieces that stand for three backquotes followed by json, and for three backquotes
FenceJson == "(fence)json"
Fence == "(fence)"

JsonElements == {"s1", "s2", "o1", "o2"}
AiResponses ==
    {<<"[", "s1", ",", "s2", "]">>,
     <<FenceJson, "[", "o1", ",", "o2", "]", Fence>>,
     <<Space, "[", "s1", "]", Space>>,
     <<"[", "]">>,
     <<"w1", Space, "w2">>,
     <<"[", "s1", ",">>,
     <<FenceJson, "w1", Fence>>,
     <<>>}

IsFence(piece) == piece \in {FenceJson, Fence}
NotFence(piece) == ~IsFence(piece)

\* the two replace calls that drop the code fences, then trim()
sanitize(text) == trim(SelectSeq(text, NotFence))

\* JSON.parse on an array text: whether it parsed, and the elements
JSONparse(jsonStr) ==
    LET n == Len(jsonStr)
        inner == IF n >= 2 THEN SubSeq(jsonStr, 2, n - 1) ELSE <<>>
        ok == /\ n >= 2 /\ jsonStr[1] = "[" /\ jsonStr[n] = "]"
              /\ \/ inner = <<>>
                 \/ /\ Len(inner) % 2 = 1
                    /\ \A k \in 1..Len(inner) :
                          IF k % 2 = 1 THEN inner[k] \in JsonElements ELSE inner[k] = ","
    IN [ok |-> ok,
        value |-> IF ok THEN [k \in 1..((Len(inner) + 1) \div 2) |-> inner[2 * k - 1]]
                  ELSE <<>>]

\* an entry of the commit-message quick pick: what is shown and what is committed
Item(label, value) == [label |-> label, value |-> value]

\* { label: "Error parsing AI response", detail: e.message, value: "Error" }
ErrorItem == Item(<<"Error parsing AI response">>, <<"Error">>)

\* the fallback of part_001: catch (e) { return [{ label: "Error parsing AI response", ... }] }
errorFallback(text) == <<ErrorItem>>

\* the fallback of extension.js: catch (e) { options = [result.response.text()]; }
rawTextFallback(text) == <<Item(text, text)>>

\* rawOptions.map(opt => ({ label: '$(git-commit) ' + subject, value: subject + 2 newlines + body }))
subjectBodyItems(rawOptions) ==
    [k \in 1..Len(rawOptions) |->
        Item(<<"$(git-commit) ", rawOptions[k], ".subject">>,
             <<rawOptions[k], ".subject", "\n\n", rawOptions[k], ".body">>)]

\* the options of extension.js: the parsed array, or the raw text alone
optionsOf(text) ==
    LET parsed == JSONparse(sanitize(text))
    IN IF parsed.ok THEN [k \in 1..Len(parsed.value) |->
                             Item(<<parsed.value[k]>>, <<parsed.value[k]>>)]
       ELSE rawTextFallback(text)

\* the generatedItems of part_001: the mapped array, or the error entry
generatedItemsOf(text) ==
    LET parsed == JSONparse(sanitize(text))
    IN IF parsed.ok THEN subjectBodyItems(parsed.value) ELSE errorFallback(text)

\* a resolution that prefers the packaged key
resolveDefaultFirst(stored, packaged) == IF Falsy(packaged) THEN stored ELSE packaged

\* let apiKey = await context.secrets.get('geminiApiKey');
\* if (!apiKey) apiKey = config.get('defaultApiKey');
resolveApiKey(stored, packaged) == IF Falsy(stored) THEN packaged ELSE stored

\* if (!apiKey || apiKey.includes('PUT_YOUR_DEFAULT_KEY'))
keyMissing(apiKey) == Falsy(apiKey) \/ includesPlaceholder(apiKey.path)

\* } catch (err) { vscode.window.showErrorMessage('Error: ' + err.message); }
aiFailed(r) == finish(showErrorMessage(r, "Error: "))

\* a rejection on the far side of the AI request.  In extension.js the
\* progress task is not awaited, so the command's catch is gone by then; in
\* part_001 commit and push are awaited inside the try block
afterRequestFailed(r) ==
    IF build = "extension.js" THEN unhandledRejection(r) ELSE aiFailed(r)

\* if (!folder) return;  then the key: config.get('geminiApiKey') and
\* 'Gemini API Key missing in Settings' (extension.js), or the await of
\* context.secrets.get (part_001)
aiCommitBody(folder) ==
    IF ~folder.defined
    THEN [IdleRun EXCEPT !.cmd = "aiCommit", !.pc = "done"]
    ELSE LET r == [IdleRun EXCEPT !.cmd = "aiCommit", !.folder = folder]
         IN IF build = "part_001" THEN issue(r, "secrets.get", <<>>, "secretGet")
            ELSE IF Falsy(config)
            THEN finish(showErrorMessage(r, "Gemini API Key missing in Settings"))
            ELSE issue([r EXCEPT !.key = config], "status", <<>>, "status")

\* context.secrets.get comes back (part_001): the key is resolved and
\* checked; without a key the error with its 'Set Key' action is shown
secretGot ==
    /\ run.cmd = "aiCommit" /\ run.pc = "secretGet"
    /\ LET apiKey == resolveApiKey(secret, config)
       IN run' = IF keyMissing(apiKey)
                 THEN [showErrorMessage(run, "Gemini API Key missing. Please set your own key.")
                          EXCEPT !.pc = "keyError"]
                 ELSE issue([run EXCEPT !.key = apiKey], "status", <<>>, "status")
    /\ UNCHANGED <<build, workspace, fsVars, pollVars, loc, secret, config, gitignore>>

\* if (action === 'Set Key') vscode.commands.executeCommand('git-helper.setApiKey'); return;
keyErrorAnswered(action) ==
    /\ run.cmd = "aiCommit" /\ run.pc = "keyError"
    /\ run' = IF action = "Set Key" THEN setKeyStart ELSE finish(run)
    /\ UNCHANGED <<build, workspace, fsVars, pollVars, loc, secret, config, gitignore>>

\* a continuation that pushes whether or not the commit went through
aiAfterPushAnyway(r, ok, nonEmpty) ==
    IF r.pc = "status"
    THEN IF ~ok THEN aiFailed(r)
         ELSE IF ~nonEmpty THEN finish(showInformationMessage(r, "No changes in "))
         ELSE issue(r, "add", <<".">>, "add")
    ELSE IF r.pc = "add"
    THEN IF ~ok THEN aiFailed(r) ELSE issue(r, "diff", <<"--staged">>, "diff")
    ELSE IF r.pc = "diff"
    THEN IF ~ok THEN aiFailed(r)
         ELSE IF ~nonEmpty THEN finish(r)
         ELSE issue(r, "generateContent", r.key.path, "generate")
    ELSE IF r.pc = "commit"
    THEN issue(r, "push", <<>>, "push")
    ELSE IF ~ok THEN afterRequestFailed(r)
         ELSE finish(showInformationMessage(r, "Pushed to "))

\* the continuation of aiCommitCommand after the git call it awaited;
\* nonEmpty tells whether status listed files, or diff returned text
aiAfter(r, ok, nonEmpty) ==
    IF r.pc = "status"
    THEN IF ~ok THEN aiFailed(r)
         ELSE IF ~nonEmpty THEN finish(showInformationMessage(r, "No changes in "))
         ELSE issue(r, "add", <<".">>, "add")
    ELSE IF r.pc = "add"
    THEN IF ~ok THEN aiFailed(r) ELSE issue(r, "diff", <<"--staged">>, "diff")
    ELSE IF r.pc = "diff"
    THEN IF ~ok THEN aiFailed(r)
         ELSE IF ~nonEmpty THEN finish(r)
         ELSE issue(r, "generateContent", r.key.path, "generate")
    ELSE IF r.pc = "commit"
    THEN IF ~ok THEN afterRequestFailed(r) ELSE issue(r, "push", <<>>, "push")
    ELSE IF ~ok THEN afterRequestFailed(r)
         ELSE finish(showInformationMessage(r, "Pushed to "))

\* a git call of aiCommitCommand comes back
aiGitDone(ok, nonEmpty) ==
    /\ run.cmd = "aiCommit"
    /\ run.pc \in {"status", "add", "diff", "commit", "push"}
    /\ run' = aiAfter(run, ok, nonEmpty)
    /\ UNCHANGED <<build, workspace, fsVars, pollVars, loc, secret, config, gitignore>>

\* model.generateContent(prompt) comes back, with the response text
generateDone(ok, text) ==
    /\ run.cmd = "aiCommit" /\ run.pc = "generate"
    /\ run' =
         IF build = "extension.js"
         THEN IF ~ok THEN unhandledRejection(run)
              ELSE [run EXCEPT !.response = Defined(text), !.options = optionsOf(text),
                               !.pc = "pickMessage"]
         ELSE LET generatedItems == IF ok THEN generatedItemsOf(text) ELSE errorFallback(text)
                  r == [run EXCEPT !.response = IF ok THEN Defined(text) ELSE Undefined,
                                   !.options = generatedItems]
              IN IF Len(generatedItems) = 0 THEN finish(r) ELSE [r EXCEPT !.pc = "pickMessage"]
    /\ UNCHANGED <<build, workspace, fsVars, pollVars, loc, secret, config, gitignore>>

\* the commit-message quick pick resolves (i = 0: dismissed):
\* if (selected) (extension.js), if (selected && selected.value !== "Error") (part_001)
messagePicked(i) ==
    /\ run.cmd = "aiCommit" /\ run.pc = "pickMessage"
    /\ i \in 0..Len(run.options)
    /\ run' = IF i = 0 THEN finish(run)
              ELSE IF build = "part_001" /\ run.options[i].value = <<"Error">> THEN finish(run)
              ELSE IF build = "extension.js" /\ Falsy(Defined(run.options[i].value))
              THEN finish(run)
              ELSE issue(run, "commit", run.options[i].value, "commit")
    /\ UNCHANGED <<build, workspace, fsVars, pollVars, loc, secret, config, gitignore>>

\* --- the commands that start with getRepoOrPickOne, and the folder pickers ---

\* the command goes on with the folder its locator returned
commandBody(l) ==
    IF l.cmd = "publishRepo" THEN publishBody(l.target)
    ELSE IF l.cmd = "ignoreFiles" THEN ignoreBody(l)
    ELSE IF l.cmd = "aiCommit" THEN aiCommitBody(l.target)
    ELSE graphBody(l.target)

\* ignoreCommand, aiCommitCommand, graphCommand up to the first prompt or call
repoCommandRun(cmd) ==
    /\ CommandIdle
    /\ repoCommand(cmd)
    /\ run' = IF loc'.pc = "done" THEN commandBody(loc') ELSE Locating(cmd)
    /\ UNCHANGED <<secret, config, gitignore>>

\* the folder or repository picker resolves and the command goes on
folderPicked(i) ==
    /\ run.pc = "locator"
    /\ quickPick(i)
    /\ run' = commandBody(loc')
    /\ UNCHANGED <<secret, config, gitignore>>

\* --- the user's tree, settings and .gitignore change between commands ---

CommandDirs == {<<".git">>, <<"a">>, <<"a", ".git">>}
CommandFiles == {<<"f">>}

\* the keys the gitHelper configuration section can hold
PackagedKeys == {<<"k0">>, <<Placeholder, "_HERE">>}

CommandMkdir(p) ==
    /\ CommandIdle
    /\ Mkdir(CommandDirs, p)
    /\ run' = IdleRun
    /\ UNCHANGED <<pollVars, secret, config, gitignore>>

CommandRmdir(p) ==
    /\ CommandIdle
    /\ Rmdir(p)
    /\ run' = IdleRun
    /\ UNCHANGED <<pollVars, secret, config, gitignore>>

CommandCreateFile(p) ==
    /\ CommandIdle
    /\ CreateFile(p)
    /\ run' = IdleRun
    /\ UNCHANGED <<secret, config, gitignore>>

CommandUnlink(p) ==
    /\ CommandIdle
    /\ Unlink(p)
    /\ run' = IdleRun
    /\ UNCHANGED <<secret, config, gitignore>>

\* the user rewrites .gitignore
editIgnore(content) ==
    /\ CommandIdle
    /\ gitignore # content
    /\ gitignore' = content
    /\ run' = IdleRun /\ loc' = IdleLoc
    /\ UNCHANGED <<build, workspace, fsVars, pollVars, secret, config>>

\* the API key of the settings (geminiApiKey, defaultApiKey) is set or removed
configure(key) ==
    /\ CommandIdle
    /\ config # key
    /\ config' = key
    /\ run' = IdleRun /\ loc' = IdleLoc
    /\ UNCHANGED <<build, workspace, fsVars, pollVars, secret, gitignore>>

-----------------------------------------------------------------------------
(* The specifications *)

IdleStatusBar == [text |-> <<>>, visible |-> FALSE]

\* the state after activate(): the status bar item exists, the interval is armed
Init ==
    /\ build \in Builds
    /\ workspace \in BOOLEAN
    /\ dirs = {}
    /\ files = {}
    /\ unreadable = {}
    /\ loc = IdleLoc
    /\ timer = TRUE
    /\ cycles = [c \in 1..MaxCycles |-> FreeCycle]
    /\ statusBar = IdleStatusBar
    /\ pulls = {}
    /\ run = IdleRun
    /\ secret = Undefined
    /\ config = Undefined
    /\ gitignore = <<>>

\* the commands and the locator
Next ==
    \/ publishRepo /\ UNCHANGED cmdVars
    \/ \E cmd \in RepoCommands : repoCommand(cmd) /\ UNCHANGED cmdVars
    \/ \E i \in 0..(MaxTreeDepth + MaxEntries + 1) : quickPick(i) /\ UNCHANGED cmdVars
    \/ \E p \in DirUniverse : Mkdir(DirUniverse, p) /\ UNCHANGED <<pollVars, cmdVars>>
    \/ \E p \in DirUniverse : Rmdir(p) /\ UNCHANGED <<pollVars, cmdVars>>
    \/ \E p \in FileUniverse : CreateFile(p) /\ UNCHANGED cmdVars
    \/ \E p \in FileUniverse : Unlink(p) /\ UNCHANGED cmdVars
    \/ \E p \in DirUniverse \cup {Root} : Chmod(p) /\ UNCHANGED <<pollVars, cmdVars>>

Spec == Init /\ [][Next]_vars

\* the background poller
PollNext ==
    \/ \E c \in 1..MaxCycles : tick(c) /\ UNCHANGED cmdVars
    \/ \E c \in 1..MaxCycles, ok \in BOOLEAN : fetchDone(c, ok) /\ UNCHANGED cmdVars
    \/ \E c \in 1..MaxCycles, ok \in BOOLEAN, behind \in 0..MaxBehind :
          (ok \/ behind = 0) /\ statusDone(c, ok, behind) /\ UNCHANGED cmdVars
    \/ \E c \in 1..MaxCycles, ok \in BOOLEAN : rawDone(c, ok) /\ UNCHANGED cmdVars
    \/ \E n \in pulls, sel \in {"Sync Now", "dismissed"} : notificationAnswered(n, sel) /\ UNCHANGED cmdVars
    \/ \E n \in pulls, ok \in BOOLEAN : pullDone(n, ok) /\ UNCHANGED cmdVars
    \/ deactivate /\ UNCHANGED cmdVars
    \/ \E p \in PollUniverse : PollMkdir(p) /\ UNCHANGED cmdVars
    \/ \E p \in PollUniverse : PollRmdir(p) /\ UNCHANGED cmdVars
    \/ PollChmod /\ UNCHANGED cmdVars

PollerSpec == Init /\ [][PollNext]_vars

\* the background poller with room for a tick while a cycle is in flight:
\* setInterval calls the callback every period, whether or not the promise
\* of the previous call has settled
OverlapInit ==
    /\ build \in Builds
    /\ workspace \in BOOLEAN
    /\ dirs = {}
    /\ files = {}
    /\ unreadable = {}
    /\ loc = IdleLoc
    /\ timer = TRUE
    /\ cycles = [c \in 1..MaxOverlap |-> FreeCycle]
    /\ statusBar = IdleStatusBar
    /\ pulls = {}
    /\ run = IdleRun
    /\ secret = Undefined
    /\ config = Undefined
    /\ gitignore = <<>>

OverlapNext ==
    \/ \E c \in 1..MaxOverlap : tick(c) /\ UNCHANGED cmdVars
    \/ \E c \in 1..MaxOverlap, ok \in BOOLEAN : fetchDone(c, ok) /\ UNCHANGED cmdVars
    \/ \E c \in 1..MaxOverlap, ok \in BOOLEAN, behind \in 0..MaxBehind :
          (ok \/ behind = 0) /\ statusDone(c, ok, behind) /\ UNCHANGED cmdVars
    \/ \E c \in 1..MaxOverlap, ok \in BOOLEAN : rawDone(c, ok) /\ UNCHANGED cmdVars
    \/ \E n \in pulls, sel \in {"Sync Now", "dismissed"} : notificationAnswered(n, sel) /\ UNCHANGED cmdVars
    \/ \E n \in pulls, ok \in BOOLEAN : pullDone(n, ok) /\ UNCHANGED cmdVars
    \/ deactivate /\ UNCHANGED cmdVars
    \/ \E p \in PollUniverse : PollMkdir(p) /\ UNCHANGED cmdVars
    \/ \E p \in PollUniverse : PollRmdir(p) /\ UNCHANGED cmdVars
    \/ PollChmod /\ UNCHANGED cmdVars

OverlapSpec == OverlapInit /\ [][OverlapNext]_vars

\* the commands
CommandNext ==
    \/ publishCommand
    \/ \E cmd \in RepoCommands : repoCommandRun(cmd)
    \/ \E i \in 0..(MaxEntries + 1) : folderPicked(i)
    \/ \E remoteUrl \in InputBoxValues(Urls) : remoteUrlAnswered(remoteUrl)
    \/ \E ok \in BOOLEAN : publishGitDone(ok)
    \/ \E dismissed, ok \in BOOLEAN :
          \E selected \in Selections(Len(run.options)) : filesPicked(dismissed, selected, ok)
    \/ cloneCommand
    \/ \E repoUrl \in InputBoxValues(Urls) : repoUrlAnswered(repoUrl)
    \/ \E folderUri \in {Undefined, Defined(<<"dest">>)} : destinationAnswered(folderUri)
    \/ \E ok \in BOOLEAN : cloneDone(ok)
    \/ \E open \in {"Yes", "No", "dismissed"} : openAnswered(open)
    \/ \E ok \in BOOLEAN : graphLogDone(ok)
    \/ setKeyCommand
    \/ \E newKey \in InputBoxValues(KeyTexts) : keyAnswered(newKey)
    \/ secretWritten
    \/ secretGot
    \/ \E action \in {"Set Key", "dismissed"} : keyErrorAnswered(action)
    \/ \E ok, nonEmpty \in BOOLEAN : aiGitDone(ok, nonEmpty)
    \/ \E ok \in BOOLEAN, text \in AiResponses : generateDone(ok, text)
    \/ \E i \in 0..(MaxEntries + 1) : messagePicked(i)
    \/ \E p \in CommandDirs : CommandMkdir(p)
    \/ \E p \in CommandDirs : CommandRmdir(p)
    \/ \E p \in CommandFiles : CommandCreateFile(p)
    \/ \E p \in CommandFiles : CommandUnlink(p)
    \/ \E content \in IgnoreContents : editIgnore(content)
    \/ \E key \in InputBoxValues(PackagedKeys) : configure(key)

CommandSpec == Init /\ [][CommandNext]_vars

-----------------------------------------------------------------------------
(* Properties of the Repository Locator *)

SeqRange(q) == {q[i] : i \in 1..Len(q)}
CandPaths(l) == {c.path : c \in SeqRange(l.cands)}

\* a scan of pickFolderToPublish / of getRepoOrPickOne has run in this invocation
PublishScanned == workspace /\ loc.cmd = "publishRepo"
RepoScanned == workspace /\ loc.cmd \in RepoCommands

HasExcludedSegment(p) == \E k \in 1..Len(p) : p[k] \in ExcludedNames

\* C1: the repository list of getRepoOrPickOne never holds two entries of
\* which one lies strictly inside the other
C1_NoNestedRepositories ==
    RepoScanned =>
        \A p, q \in CandPaths(loc) : ~StrictlyInside(q, p)

\* C2: no scan reads a directory named .git, node_modules, dist or build, and
\* no result has such a name as a segment of its path below the scan root
C2_ExcludedNeverScanned ==
    /\ (PublishScanned \/ RepoScanned) =>
          /\ \A r \in SeqRange(loc.reads) : ~HasExcludedSegment(r)
          /\ \A p \in CandPaths(loc) : ~HasExcludedSegment(p)
    /\ loc.target.defined =>
          /\ \A r \in SeqRange(loc.itemReads) :
                ~HasExcludedSegment(Relative(loc.target.path, r))
          /\ \A it \in SeqRange(loc.items) : ~HasExcludedSegment(it.label)

\* scanDir and getAllFilesRecursively do keep clear of the excluded names
ScanDirAndFileScanExclude ==
    /\ PublishScanned =>
          /\ \A r \in SeqRange(loc.reads) : ~HasExcludedSegment(r)
          /\ \A p \in CandPaths(loc) : ~HasExcludedSegment(p)
    /\ loc.target.defined =>
          /\ \A r \in SeqRange(loc.itemReads) :
                ~HasExcludedSegment(Relative(loc.target.path, r))
          /\ \A it \in SeqRange(loc.items) : ~HasExcludedSegment(it.label)

\* the candidates a scan bounded by maxDepth = 0 returns on the current tree
ZeroDepthCands == SeqRange(publishScan(FS, 0).cands) \cup SeqRange(repoScan(FS, 0).cands)
ZeroDepthReads == SeqRange(publishScan(FS, 0).reads) \cup SeqRange(repoScan(FS, 0).reads)

\* C3 as stated: no directory deeper than maxDepth is read and no candidate
\* deeper than maxDepth is returned (so that maxDepth = 0 would leave no
\* candidate below the root)
C3_NothingPastMaxDepth ==
    (PublishScanned \/ RepoScanned) =>
        /\ \A r \in SeqRange(loc.reads) : Len(r) <= MaxDepth
        /\ \A p \in CandPaths(loc) : Len(p) <= MaxDepth

\* C3, amended: no directory deeper than maxDepth is read, every candidate is
\* at most maxDepth + 1 levels below the root, and a scan with maxDepth = 0
\* reads the root only and returns nothing deeper than the root's children
C3_DepthBound ==
    (PublishScanned \/ RepoScanned) =>
        /\ \A r \in SeqRange(loc.reads) : Len(r) <= MaxDepth
        /\ \A p \in CandPaths(loc) : Len(p) <= MaxDepth + 1
        /\ \A c \in ZeroDepthCands : Len(c.path) <= 1
        /\ \A r \in ZeroDepthReads : r = Root

\* a scan over a tree that goes deeper than the bound returned a candidate at
\* the last level it can return
C3_Witness ==
    /\ PublishScanned \/ RepoScanned
    /\ Spine(MaxDepth + 2) \in dirs
    /\ \E p \in CandPaths(loc) : Len(p) = MaxDepth + 1

\* C4: findRepos reports a subdirectory that contains .git under its
\* directory name and reads nothing at or below it; the tree /a/.git,
\* /a/a/.git under a root that is no repository gives exactly the entry a
C4_RepoReportedNotDescended ==
    RepoScanned =>
        /\ \A c \in SeqRange(loc.cands) :
              c.path # Root =>
                 /\ existsSync(FS, Join(c.path, ".git"))
                 /\ c.label = Basename(c.path)
                 /\ \A r \in SeqRange(loc.reads) : ~IsPrefix(c.path, r)
        /\ \A d \in dirs :
              (/\ Parent(d) \in SeqRange(loc.reads) \ unreadable
               /\ Basename(d) \notin FindReposExcluded
               /\ existsSync(FS, Join(d, ".git")))
              => d \in CandPaths(loc)
        /\ (dirs = {<<"a">>, <<"a", ".git">>, <<"a", "a">>, <<"a", "a", ".git">>} /\ unreadable = {})
              => loc.cands = <<[label |-> "a", path |-> <<"a">>]>>

C4_Witness ==
    /\ RepoScanned
    /\ dirs = {<<"a">>, <<"a", ".git">>, <<"a", "a">>, <<"a", "a", ".git">>}
    /\ unreadable = {}
    /\ loc.pc = "done"
    /\ loc.target = Defined(<<"a">>)

\* the directories scanDir can get to: every directory on the way, the root
\* included, is readable and none below the root has an excluded name
ScanDirReaches(d) ==
    /\ \A k \in 1..Len(d) : d[k] \notin ScanDirExcluded
    /\ \A k \in 0..(Len(d) - 1) : SubSeq(d, 1, k) \notin unreadable

\* C5 as stated: every candidate of pickFolderToPublish lacks .git, and every
\* directory without .git within the depth bound whose path has no excluded
\* name is offered, also beneath another candidate
C5_AllPublishableOffered ==
    PublishScanned =>
        /\ \A p \in CandPaths(loc) : ~existsSync(FS, Join(p, ".git"))
        /\ \A d \in dirs :
              (/\ Len(d) <= MaxDepth + 1
               /\ \A k \in 1..Len(d) : d[k] \notin ScanDirExcluded
               /\ ~existsSync(FS, Join(d, ".git")))
              => d \in CandPaths(loc)

\* C5, amended: the same, for the directories that are reached through
\* readable directories
C5_ReadablePublishableOffered ==
    PublishScanned =>
        /\ \A p \in CandPaths(loc) : ~existsSync(FS, Join(p, ".git"))
        /\ \A d \in dirs :
              (/\ Len(d) <= MaxDepth + 1
               /\ ScanDirReaches(d)
               /\ ~existsSync(FS, Join(d, ".git")))
              => d \in CandPaths(loc)

\* a candidate was offered beneath another candidate, next to a repository
C5_Witness ==
    /\ PublishScanned
    /\ loc.pc = "pick"
    /\ {<<"a">>, <<"a", "a">>} \subseteq CandPaths(loc)
    /\ <<"b", ".git">> \in dirs
    /\ <<"b">> \notin CandPaths(loc)

\* a scan has finished without a single candidate
NothingFound == (PublishScanned \/ RepoScanned) /\ loc.cands = <<>> /\ loc.pc = "done"

\* C6 as stated: when a scan finds no candidate the helper returns undefined,
\* no error message is shown and the command acts on no folder
C6_EmptyResultSignal ==
    NothingFound =>
        /\ loc.ret = Undefined
        /\ loc.errors = <<>>
        /\ loc.target = Undefined

\* C6, amended: when findRepos finds nothing, getRepoOrPickOne shows the
\* error 'No Git repositories found.' and returns undefined, and the command
\* acts on no folder; when scanDir finds nothing, pickFolderToPublish shows
\* no error and returns the workspace root, on which the publish command acts
C6_EmptyResultByMode ==
    NothingFound =>
        IF loc.cmd = "publishRepo"
        THEN /\ loc.ret = Defined(Root)
             /\ loc.errors = <<>>
             /\ loc.target = Defined(Root)
             /\ loc.picked = 0
        ELSE /\ loc.ret = Undefined
             /\ loc.errors = <<"No Git repositories found.">>
             /\ loc.target = Undefined

\* the publish command found nothing to publish below a root that is a repository
C6_Witness ==
    /\ NothingFound
    /\ loc.cmd = "publishRepo"
    /\ <<"a", ".git">> \in dirs

\* the filesystem with directory u readable again
Readable(u) == [FS EXCEPT !.unreadable = @ \ {u}]

\* the candidates of q that do not lie inside u
Outside(q, u) == SelectSeq(q, LAMBDA c : ~StrictlyInside(c.path, u))

\* C7: a directory that cannot be read costs a locator scan exactly the
\* candidates inside that directory: nothing below it is read, its siblings
\* are read and the candidates outside it are returned as if it were
\* readable, and no exception leaves the scan
C7_UnreadableSkipped ==
    (PublishScanned \/ RepoScanned) =>
        /\ ~loc.threw
        /\ \A e \in SeqRange(loc.errors) : e = "No Git repositories found." /\ loc.cands = <<>>
        /\ \A u \in unreadable :
              /\ \A r \in SeqRange(loc.reads) : ~StrictlyInside(r, u)
              /\ \A p \in CandPaths(loc) : ~StrictlyInside(p, u)
              /\ loc.cands = Outside(IF loc.cmd = "publishRepo"
                                     THEN publishScan(Readable(u), MaxDepth).cands
                                     ELSE repoScan(Readable(u), MaxDepth).cands, u)
              /\ \A d \in dirs :
                    (/\ u # Root /\ Parent(d) = Parent(u) /\ u \in SeqRange(loc.reads)
                     /\ Basename(d) \notin ScanDirExcluded
                     /\ Len(d) <= MaxDepth
                     /\ loc.cmd \in RepoCommands => ~existsSync(FS, Join(d, ".git")))
                    => d \in SeqRange(loc.reads)

\* the scan met the unreadable directory a, which hides a/a, after it had
\* collected the root and Root, and went on to its sibling b
C7_Witness ==
    /\ PublishScanned
    /\ unreadable = {<<"a">>}
    /\ {<<"Root">>, <<"a", "a">>, <<"b">>} \subseteq dirs
    /\ loc.reads = <<Root, <<"Root">>, <<"a">>, <<"b">>>>
    /\ {Root, <<"Root">>, <<"a">>, <<"b">>} = CandPaths(loc)

-----------------------------------------------------------------------------
(* Properties of the Remote-Status Poller *)

\* the repositories a poll cycle can discover in the current tree: the root if
\* it holds .git, and the root's subdirectories that hold .git if the root
\* can be listed
Discoverable ==
    IF ~workspace THEN {}
    ELSE (IF Join(Root, ".git") \in dirs THEN {Root} ELSE {})
         \cup (IF Root \in unreadable THEN {}
               ELSE {d \in dirs : Len(d) = 1 /\ Join(d, ".git") \in dirs})

\* C8: a poll cycle that starts when no repository can be discovered issues
\* no fetch, status, log or pull, shows no notification and leaves the
\* status bar item as it is
C8_EmptyCycleDoesNothing ==
    [][\A c \in 1..MaxCycles :
          (tick(c) /\ Discoverable = {}) =>
             /\ cycles'[c].pc = "done"
             /\ cycles'[c].calls = <<>>
             /\ cycles'[c].notes = <<>>
             /\ cycles'[c].bar = <<>>
             /\ statusBar' = statusBar
             /\ pulls' = pulls]_vars

\* a cycle found nothing in an open workspace whose status bar still shows
\* what an earlier cycle wrote
C8_Witness ==
    /\ workspace /\ Discoverable = {}
    /\ <<"a">> \in dirs
    /\ statusBar.visible
    /\ \E c \in 1..MaxCycles :
          /\ cycles[c].pc = "done"
          /\ cycles[c].repoPaths = <<>>
          /\ cycles[c].calls = <<>>

\* C9: within a poll cycle, a repository whose status reported behind = 0 is
\* named by no notification and by no status bar update of that cycle
C9_LevelRepositoryNotNotified ==
    \A c \in 1..MaxCycles :
        \A r \in SeqRange(cycles[c].reported) :
            r.behind = 0 =>
                \A n \in SeqRange(cycles[c].notes) \cup SeqRange(cycles[c].bar) :
                    n.repo # r.repo

\* a cycle passed a repository that is level with its remote and notified
\* about the next one
C9_Witness ==
    \E c \in 1..MaxCycles :
        /\ cycles[c].pc = "done"
        /\ Len(cycles[c].reported) = 2
        /\ cycles[c].reported[1].behind = 0
        /\ cycles[c].notes = <<cycles[c].reported[2]>>
        /\ cycles[c].reported[2].repo # cycles[c].reported[1].repo
        /\ statusBar = showBehind(cycles[c].reported[2].repo, cycles[c].reported[2].behind)

\* the position of repository r in the cycle's scan order
ScanIndex(cy, r) == CHOOSE k \in 1..Len(cy.repoPaths) : cy.repoPaths[k] = r

\* C10: a finished poll cycle in which the status of some repository reported
\* behind > 0 has shown exactly one notification, for the first such
\* repository in scan order, and has called nothing on a later repository
C10_OneNotificationForFirstBehind ==
    \A c \in 1..MaxCycles :
        LET cy == cycles[c]
            behindAt == {k \in 1..Len(cy.reported) : cy.reported[k].behind > 0}
        IN (cy.pc = "done" /\ behindAt # {}) =>
              LET first == cy.reported[CHOOSE k \in behindAt : \A j \in behindAt : k <= j]
              IN /\ cy.notes = <<first>>
                 /\ \A call \in SeqRange(cy.calls) :
                       ScanIndex(cy, call.repo) <= ScanIndex(cy, first.repo)

\* a step in which a fetch, a status query or an author query of cycle c fails
PollCallFails(c) ==
    \/ fetchDone(c, FALSE)
    \/ \E behind \in 0..MaxBehind : statusDone(c, FALSE, behind)
    \/ rawDone(c, FALSE)

\* C11: a failing fetch, status or author query shows nothing to the user
\* (no message, no notification, no status bar change), ends that
\* repository's turn and makes the cycle fetch the next repository if there
\* is one; a failing pull shows nothing either; the timer stays armed
C11_PollerFailuresSwallowed ==
    [][/\ \A c \in 1..MaxCycles :
            PollCallFails(c) =>
               LET cy == cycles[c]
                   cy2 == cycles'[c]
               IN /\ statusBar' = statusBar /\ pulls' = pulls
                  /\ loc' = loc /\ timer' = timer
                  /\ cy2.notes = cy.notes /\ cy2.bar = cy.bar
                  /\ cy2.reported = cy.reported
                  /\ IF cy.i < Len(cy.repoPaths)
                     THEN /\ cy2.pc = "fetch" /\ cy2.i = cy.i + 1
                          /\ cy2.calls = Append(cy.calls, Call("fetch", cy.repoPaths[cy.i + 1]))
                     ELSE /\ cy2.pc = "done" /\ cy2.calls = cy.calls
       /\ \A n \in pulls :
            pullDone(n, FALSE) =>
               /\ statusBar' = statusBar /\ cycles' = cycles
               /\ loc' = loc /\ timer' = timer]_vars

\* the author query on the root repository failed after its status had
\* reported it behind: nothing was shown and the cycle fetched repository a
C11_Witness ==
    \E c \in 1..MaxCycles :
        /\ cycles[c].calls = <<Call("fetch", Root), Call("status", Root),
                               Call("log", Root), Call("fetch", <<"a">>)>>
        /\ Len(cycles[c].reported) = 1 /\ cycles[c].reported[1].behind > 0
        /\ cycles[c].notes = <<>> /\ cycles[c].bar = <<>>
        /\ pulls = {} /\ ~statusBar.visible

\* the call a cycle is waiting for, by its position in the callback
AwaitedOp(pc) == IF pc = "fetch" THEN "fetch" ELSE IF pc = "status" THEN "status" ELSE "log"

\* C12: in one poll cycle every status query directly follows the fetch of
\* the same repository and every author query its status query; a fetch is
\* issued only after every call on the repositories before it, all of which
\* are over by then: the only call of the cycle that can be outstanding is
\* the last one issued, on the repository the loop is at
C12_OneRepositoryAtATime ==
    \A c \in 1..MaxCycles :
        LET cy == cycles[c]
            calls == cy.calls
        IN /\ \A k \in 1..Len(calls) :
                 /\ calls[k].op = "status" =>
                        k > 1 /\ calls[k - 1] = Call("fetch", calls[k].repo)
                 /\ calls[k].op = "log" =>
                        k > 1 /\ calls[k - 1] = Call("status", calls[k].repo)
                 /\ calls[k].op = "fetch" =>
                        \A j \in 1..(k - 1) :
                            ScanIndex(cy, calls[j].repo) < ScanIndex(cy, calls[k].repo)
           /\ cy.pc \in {"fetch", "status", "raw"} =>
                 /\ calls # <<>>
                 /\ calls[Len(calls)] = Call(AwaitedOp(cy.pc), cy.repoPaths[cy.i])

\* a cycle over two repositories is waiting for the status of the second,
\* having fetched and queried the first
C12_Witness ==
    \E c \in 1..MaxCycles :
        /\ cycles[c].pc = "status"
        /\ cycles[c].repoPaths = <<Root, <<"a">>>>
        /\ cycles[c].calls = <<Call("fetch", Root), Call("status", Root),
                               Call("fetch", <<"a">>), Call("status", <<"a">>)>>

\* the root if it holds .git, and every subdirectory of the root that holds .git
TreeRepositories ==
    (IF Join(Root, ".git") \in dirs THEN {Root} ELSE {})
        \cup {d \in dirs : Len(d) = 1 /\ Join(d, ".git") \in dirs}

\* C13 as stated: the repositories of a cycle started in an open workspace
\* are the root if it holds .git and every subdirectory of it that holds .git
C13_CycleChecksTreeRepositories ==
    [][\A c \in 1..MaxCycles :
          (workspace /\ tick(c)) =>
              SeqRange(cycles'[c].repoPaths) = TreeRepositories]_vars

\* C13: the repositories of a cycle are those of the tree at its start,
\* whatever earlier cycles saw: the root if it holds .git, then, if the root
\* can be listed, its subdirectories that hold .git, each once.  (The tree
\* changes only between cycles and a change frees the finished slots, so a
\* slot that is not free holds a cycle that started in the present tree.)
C13_CycleChecksDiscoverable ==
    \A c \in 1..MaxCycles :
        cycles[c].pc # "free" =>
            LET repoPaths == cycles[c].repoPaths
            IN /\ SeqRange(repoPaths) = Discoverable
               /\ Len(repoPaths) = Cardinality(Discoverable)
               /\ Root \in Discoverable => repoPaths[1] = Root

\* the status bar still names the root, which an earlier cycle found behind;
\* the root is no repository any more, a is one now, and the running cycle
\* checks a alone
C13_Witness ==
    /\ statusBar.visible /\ statusBar.text[1] = RepoName(Root)
    /\ Join(Root, ".git") \notin dirs
    /\ \E c \in 1..MaxCycles :
          /\ cycles[c].pc = "fetch"
          /\ cycles[c].repoPaths = <<<<"a">>>>

\* cycle c is between its first await and its end
InFlight(c) == cycles[c].pc \in {"fetch", "status", "raw"}

\* C14: the step that clears the timer touches no cycle, notification or
\* status bar; once the timer is cleared it stays cleared and no slot starts
\* a cycle; and a cycle in flight can take its next step whether or not the
\* timer is armed
C14_DeactivateStopsTicksOnly ==
    [][/\ (timer /\ ~timer') =>
            cycles' = cycles /\ pulls' = pulls /\ statusBar' = statusBar
       /\ ~timer =>
            /\ ~timer'
            /\ \A c \in 1..MaxCycles :
                  ~InFlight(c) => (cycles'[c].pc = cycles[c].pc
                                    /\ cycles'[c].calls = cycles[c].calls)
       /\ \A c \in 1..MaxCycles :
            /\ cycles[c].pc = "fetch" => ENABLED fetchDone(c, TRUE)
            /\ cycles[c].pc = "status" => ENABLED statusDone(c, TRUE, MaxBehind)
            /\ cycles[c].pc = "raw" => ENABLED rawDone(c, TRUE)]_vars

\* the timer is cleared and a cycle over two repositories, past the first,
\* is waiting for the author query on the second
C14_Witness ==
    /\ ~timer
    /\ \E c \in 1..MaxCycles :
          /\ cycles[c].pc = "raw"
          /\ cycles[c].i = 2

-----------------------------------------------------------------------------
(* Properties of the commands *)

\* the AI answered and its text, fences stripped, is no valid JSON
ResponseNotJson(r) ==
    /\ r.cmd = "aiCommit"
    /\ r.response.defined
    /\ ~JSONparse(sanitize(r.response.path)).ok

\* C15: when the AI response is not valid JSON after the code fences are
\* stripped, the commit-message list offered holds exactly one entry, that
\* entry is the raw response text, and no error message is shown
C15_RawTextIsTheOnlyOption ==
    (ResponseNotJson(run) /\ run.pc = "pickMessage") =>
        /\ Len(run.options) = 1
        /\ run.options[1].label = run.response.path
        /\ run.options[1].value = run.response.path
        /\ ErrorsShown(run) = {}

\* the ignore command has appended a selection to .gitignore
Appended == run.cmd = "ignoreFiles" /\ run.pc = "done" /\ run.added # <<>>

\* the labels, one per line, each line newline-terminated
LinesOf(labels) == join(labels, LF) \o <<LF>>

EndsWith(text, suffix) ==
    /\ Len(suffix) <= Len(text)
    /\ SubSeq(text, Len(text) - Len(suffix) + 1, Len(text)) = suffix

StartsWith(text, prefix) ==
    /\ Len(prefix) <= Len(text)
    /\ SubSeq(text, 1, Len(prefix)) = prefix

\* the last n pieces of the text come right after an empty line
BlankLineBefore(text, n) ==
    LET p == Len(text) - n
    IN /\ p >= 1 /\ text[p] = LF
       /\ p = 1 \/ text[p - 1] = LF

\* C16 as stated: whatever .gitignore held, after the append it ends with the
\* selected labels in selection order, one per newline-terminated line, a
\* blank line comes before them, and the prior content is a prefix
C16_AppendedAfterBlankLine ==
    Appended =>
        /\ EndsWith(gitignore, LinesOf(run.added))
        /\ BlankLineBefore(gitignore, Len(LinesOf(run.added)))
        /\ StartsWith(gitignore, run.before)

\* C16: after the append .gitignore is the prior content, one newline, and
\* the selected labels in selection order, one per newline-terminated line;
\* a blank line comes before the labels exactly when the prior content was
\* empty or ended with a newline
C16_AppendedAfterNewline ==
    Appended =>
        /\ gitignore = run.before \o <<LF>> \o LinesOf(run.added)
        /\ BlankLineBefore(gitignore, Len(LinesOf(run.added)))
              <=> (run.before = <<>> \/ run.before[Len(run.before)] = LF)

\* two entries, picked against the order of the list, were appended to a
\* .gitignore whose last line had no newline
C16_Witness ==
    /\ Appended
    /\ run.before = <<<<"x">>>>
    /\ run.added = <<<<"f">>, <<"a", "">>>>
    /\ gitignore = <<<<"x">>, LF, <<"f">>, LF, <<"a", "">>, LF>>

\* the calls a command has issued, by name
OpsOf(r) == {r.calls[k].op : k \in 1..Len(r.calls)}

\* a key is there: neither undefined nor the empty text
Present(key) == key.defined /\ key.path # <<>>

PromptDismissed ==
    \/ folderPicked(0)
    \/ remoteUrlAnswered(Undefined)
    \/ repoUrlAnswered(Undefined)
    \/ destinationAnswered(Undefined)
    \/ \E ok \in BOOLEAN : \E selected \in Selections(Len(run.options)) :
          filesPicked(TRUE, selected, ok)
    \/ messagePicked(0)
    \/ keyAnswered(Undefined)
    \/ keyErrorAnswered("dismissed")
    \/ openAnswered("dismissed")

\* C18: the step in which a prompt is dismissed ends the command, shows no
\* message, issues no call, and leaves the tree, .gitignore and the stored
\* secret as they are
C18_DismissEndsCommandSilently ==
    [][PromptDismissed =>
          /\ run'.pc = "done"
          /\ run'.msgs = run.msgs /\ loc'.errors = loc.errors
          /\ run'.calls = run.calls
          /\ run'.unhandled = run.unhandled
          /\ dirs' = dirs /\ files' = files
          /\ gitignore' = gitignore /\ secret' = secret]_vars

\* the remote-URL prompt of a publish that ran git init was dismissed
C18_Witness ==
    /\ run.cmd = "publishRepo" /\ run.pc = "done"
    /\ run.calls = <<Op("init", <<>>)>>
    /\ run.msgs = <<>>

\* a step in which a git call or the generateContent call of a command fails;
\* the add-remote call of publish, whose failure the code ignores on purpose,
\* is left out
CallFailed ==
    \/ run.pc # "addRemote" /\ publishGitDone(FALSE)
    \/ \E nonEmpty \in BOOLEAN : aiGitDone(FALSE, nonEmpty)
    \/ \E text \in AiResponses : generateDone(FALSE, text)
    \/ cloneDone(FALSE)
    \/ graphLogDone(FALSE)

\* C19: the step in which a git call or the generative-AI call fails ends the
\* command with exactly one more error message, issues no further call (no
\* retry) and adds no unhandled rejection
C19_FailureCaughtWithOneError ==
    [][CallFailed =>
          /\ run'.pc = "done"
          /\ Cardinality(ErrorsShown(run')) = Cardinality(ErrorsShown(run)) + 1
          /\ run'.calls = run.calls
          /\ run'.unhandled = run.unhandled]_vars

\* the git calls of a publish that goes all the way, with the given remote URL
PublishSteps(remoteUrl) ==
    << Op("init", <<>>), Op("addRemote", remoteUrl), Op("add", <<".">>),
       Op("commit", <<"Initial commit">>), Op("branch", <<"-M", "main">>),
       Op("push", <<"-u", "origin", "main">>) >>

PublishSucceeded == Msg("info", "Successfully published")
PublishFailedShown == Msg("error", "Publish failed")

AiSteps == <<"status", "add", "diff", "generateContent", "commit", "push">>

IsAiStep(call) == call.op # "secrets.get"

\* the names of the git and AI calls the command has issued, in order
AiOps(r) == LET steps == SelectSeq(r.calls, IsAiStep)
            IN [k \in 1..Len(steps) |-> steps[k].op]

Pushed == Msg("info", "Pushed to ")
NoChanges == Msg("info", "No changes in ")

\* what the calls and messages of an AI commit look like at any moment
AiCommitInOrder(r) ==
    r.cmd = "aiCommit" =>
      LET ops == AiOps(r)
          n == Len(ops)
      IN /\ n <= Len(AiSteps) /\ ops = SubSeq(AiSteps, 1, n)
         /\ \A k \in 1..Len(r.calls) :
               r.calls[k].op = "commit" =>
                  \E j \in 1..Len(r.options) : r.calls[k].arg = r.options[j].value
         /\ \A k \in 1..Len(r.msgs) :
               /\ r.msgs[k] = Pushed => r.pc = "done" /\ n = Len(AiSteps)
               /\ r.msgs[k] = NoChanges => r.pc = "done" /\ ops = <<"status">>

\* C21: the calls of the AI commit are a run of status, stage all, staged
\* diff, AI request, commit, push in that order; a status without changed
\* files ends the command with nothing staged and no request; the commit
\* carries the value of the entry the user picked; a failed commit is not
\* followed by a push; 'Pushed to' is shown only once the push has returned,
\* and not when it failed
C21_AiCommitOrder ==
    [][/\ AiCommitInOrder(run')
       /\ (run.pc = "status" /\ aiGitDone(TRUE, FALSE)) =>
             run'.pc = "done" /\ run'.calls = run.calls
       /\ (run.pc \in {"commit", "push"} /\ \E nonEmpty \in BOOLEAN : aiGitDone(FALSE, nonEmpty)) =>
             run'.pc = "done" /\ run'.calls = run.calls /\ Pushed \notin SeqRange(run'.msgs)
       /\ \A i \in 0..(MaxEntries + 1) :
             (messagePicked(i) /\ run'.calls # run.calls) =>
                 /\ i > 0
                 /\ run'.calls = Append(run.calls, Op("commit", run.options[i].value))]_vars

\* the user picked the second of two offered messages; it was committed and
\* pushed and 'Pushed to' was shown
C21_Witness ==
    /\ run.cmd = "aiCommit" /\ run.pc = "done"
    /\ Len(run.options) = 2
    /\ AiOps(run) = AiSteps
    /\ run.calls[Len(run.calls) - 1] = Op("commit", run.options[2].value)
    /\ run.msgs = <<Pushed>>

\* the invocations of the timer callback that are between their start and
\* their end, each waiting for the one remote call it has issued
CyclesInFlight == {c \in DOMAIN cycles : cycles[c].pc \in {"fetch", "status", "raw"}}

\* C22: at any moment at most one invocation of the timer callback is
\* between its start and its end, and with it at most one remote call of
\* the poller is outstanding
C22_CyclesNeverOverlap == Cardinality(CyclesInFlight) <= 1

\* C23: when the repository picker of getRepoOrPickOne was shown and the
\* user picked entry i of it, the path returned is the path of entry i
C23_PickedEntryReturned ==
    (loc.cmd \in RepoCommands /\ loc.picked > 0) =>
        /\ Len(loc.cands) >= 2
        /\ loc.ret = Defined(loc.cands[loc.picked].path)

\* a publish that chose a folder and ended without any message: its
\* remote-URL prompt was dismissed or answered with the empty text
PublishUrlDeclined ==
    /\ run.cmd = "publishRepo" /\ run.pc = "done"
    /\ run.folder.defined /\ run.msgs = <<>>

\* C24: a publish whose remote-URL prompt was dismissed or left empty has
\* made no git call on the chosen folder: no init, add-remote, add, commit,
\* branch or push
C24_DeclinedPublishTouchesNothing == PublishUrlDeclined => run.calls = <<>>

\* C25: while the status bar item is visible and a poll cycle has completed,
\* that cycle found a repository behind and the item shows that repository
\* with that cycle's count; so after a cycle that found nothing behind the
\* item is not visible
C25_WidgetShowsLatestCycle ==
    \A c \in 1..MaxCycles :
        (cycles[c].pc = "done" /\ statusBar.visible) =>
            LET bar == cycles[c].bar
            IN /\ bar # <<>>
               /\ statusBar = showBehind(bar[Len(bar)].repo, bar[Len(bar)].behind)

====
